---- MODULE Spec2Model ----
(***************************************************************************)
(* The Streamlit expense tracker of src/hello.py as a state machine.       *)
(*                                                                         *)
(* State: the four tables of expenses.db, the AUTOINCREMENT counters, the  *)
(* process-wide st.cache_data entry of get_sums, the calendar day, the     *)
(* three st.session_state overrides, and the script runs that have read    *)
(* the "Delete Selected" multiselect but not yet run their DELETE loop.    *)
(*                                                                         *)
(* Dates are day numbers: the code compares ISO "YYYY-MM-DD" strings, and  *)
(* that order is the calendar order.  Amounts are whole rupees.  The       *)
(* category and notes columns are read by no query of get_sums and are     *)
(* left out of the rows.                                                   *)
(***************************************************************************)
EXTENDS Integers, Sequences, FiniteSets, Bags, TLC

VARIABLES
    expenses,         \* table expenses: rows [id, date, amount]
    balances,         \* table balances (credits): rows [id, date, amount]
    account_balance,  \* table account_balance: rows [id, date, balance]
    records,          \* table records, in insertion order: [action, details]
    sqlite_sequence,  \* last AUTOINCREMENT id handed out, per table
    cache,            \* st.cache_data entry of get_sums, NoCache when empty
    today,            \* date.today()
    override,         \* st.session_state.override_today/_credit/_balance
    runs,             \* bag of to_delete lists read by runs not yet at l.167
    submitted,        \* history: "Update Metrics" was submitted
    mutations,        \* history: rows inserted into or deleted from the ledger
    last,             \* history: the latest run that reached conn.commit()
    prev              \* history: the committed run before it

vars == <<expenses, balances, account_balance, records, sqlite_sequence, cache,
          today, override, runs, submitted, mutations, last, prev>>

----------------------------------------------------------------------------
(* Bounds of the model *)

Today0 == 40
MaxAdvance == 1
MaxInserts == 2
MaxRuns == 2
MaxCredits == 1

(* Constants of the program *)

WeekBack == 6
WeekDays == 7
MonthBack == 29
MonthDays == 30

(* Inputs *)

\* dates picked in st.date_input: one inside the 30-day window but outside
\* the 7-day window, and the day the session starts on
InputDates == {Today0 - 10, Today0}

\* texts typed into the amount fields, as lists of characters
AmtTexts == { <<>>, <<"a", "b", "c">>, <<"-", "5">>, <<"1", "0">> }

\* numbers typed into the fields of edit_form
EditInputs == {50}

\* amounts of the credit rows an existing expenses.db holds
CreditAmounts == {20}

ActionOptions == {"Add Expense", "Add Credited Amount", "Set Bank Amount"}

NoCache == <<>>
None == <<>>
Some(v) == <<v>>

----------------------------------------------------------------------------
(* float(text): an optional sign and decimal digits; anything else raises  *)
(* ValueError (ok = FALSE).                                                *)

Digits == {"0", "1", "2", "3", "4", "5", "6", "7", "8", "9"}

DigitVal(ch) ==
    CASE ch = "0" -> 0 [] ch = "1" -> 1 [] ch = "2" -> 2 [] ch = "3" -> 3
      [] ch = "4" -> 4 [] ch = "5" -> 5 [] ch = "6" -> 6 [] ch = "7" -> 7
      [] ch = "8" -> 8 [] ch = "9" -> 9

RECURSIVE ParseDigits(_, _)
ParseDigits(s, acc) ==
    IF s = <<>> THEN acc
    ELSE ParseDigits(Tail(s), acc * 10 + DigitVal(Head(s)))

float(text) ==
    LET signed == text # <<>> /\ Head(text) \in {"-", "+"}
        body   == IF signed THEN Tail(text) ELSE text
        valid  == body # <<>> /\ \A i \in 1..Len(body) : body[i] \in Digits
    IN  IF ~valid THEN [ok |-> FALSE, val |-> 0]
        ELSE IF signed /\ Head(text) = "-"
             THEN [ok |-> TRUE, val |-> 0 - ParseDigits(body, 0)]
             ELSE [ok |-> TRUE, val |-> ParseDigits(body, 0)]

----------------------------------------------------------------------------
(* SQL *)

\* COALESCE(SUM(amount),0) over a set of rows
RECURSIVE SumAmount(_)
SumAmount(rows) ==
    IF rows = {} THEN 0
    ELSE LET r == CHOOSE x \in rows : TRUE
         IN  r.amount + SumAmount(rows \ {r})

\* ORDER BY date DESC, id DESC LIMIT 1: the latest set by date, which C1
\* tells apart from the latest by insertion
OrderByDateDesc(rows) ==
    IF rows = {} THEN <<>>
    ELSE <<CHOOSE x \in rows : \A y \in rows :
              y.date < x.date \/ (y.date = x.date /\ y.id <= x.id)>>

\* ORDER BY id DESC LIMIT 1, fetchone(): <<row>>, or <<>> for None
OrderByIdDescLimit1(rows) ==
    IF rows = {} THEN <<>>
    ELSE <<CHOOSE x \in rows : \A y \in rows : y.id <= x.id>>

\* DELETE FROM expenses WHERE id <> ?: the inverted test, which C6 tells apart
DeleteOthers(rows, did) == {r \in rows : r.id = did}

\* DELETE FROM expenses WHERE id = ?
DeleteById(rows, did) == {r \in rows : r.id # did}

\* what the database file holds
Store ==
    [expenses |-> expenses, balances |-> balances,
     account_balance |-> account_balance, records |-> records]

\* x / n, kept exact as the pair <<x, n>>
Div(x, n) == <<x, n>>

\* the body of get_sums, run on the database db on calendar day day
get_sums_body(db, day) ==
    LET today_iso  == day
        today_exp  == SumAmount({e \in db.expenses : e.date = today_iso})
        total_cred == SumAmount(db.balances)
        row        == OrderByIdDescLimit1(db.account_balance)
        manual_date_iso == IF row # <<>> THEN row[1].date ELSE today_iso
        manual_bal      == IF row # <<>> THEN row[1].balance ELSE 0
        cred_after == SumAmount({b \in db.balances : b.date >= manual_date_iso})
        exp_after  == SumAmount({e \in db.expenses : e.date >= manual_date_iso})
        current_bal == manual_bal + cred_after - exp_after
        d7    == day - WeekBack
        sum7  == SumAmount({e \in db.expenses : d7 <= e.date /\ e.date <= today_iso})
        avg7  == Div(sum7, WeekDays)
        d30   == day - MonthBack
        sum30 == SumAmount({e \in db.expenses : d30 <= e.date /\ e.date <= today_iso})
        avg30 == Div(sum30, MonthDays)
    IN  <<today_exp, total_cred, current_bal, avg7, avg30>>

\* @st.cache_data: the stored value when there is one, else the body's
get_sums(c, db, day) == IF c # NoCache THEN c ELSE get_sums_body(db, day)

\* a commit that leaves the cache as it is, which C5 tells apart
keep_cache(c) == c

\* st.cache_data.clear()
st_cache_data_clear(c) == NoCache

\* get_metrics(): get_sums() with the session's overrides laid over it
get_metrics(c, db, day, ov) ==
    LET s == get_sums(c, db, day)
    IN  << IF ov.today # None THEN ov.today[1] ELSE s[1],
           IF ov.credit # None THEN ov.credit[1] ELSE s[2],
           IF ov.balance # None THEN ov.balance[1] ELSE s[3],
           s[4], s[5] >>

\* the cache once a run that committed db2 has cleared it and st.rerun() has
\* drawn the Dashboard again (get_metrics at l.108, before and after)
after_commit(db2) ==
    get_sums(st_cache_data_clear(get_sums(cache, Store, today)), db2, today)

EmptyStore ==
    [expenses |-> {}, balances |-> {}, account_balance |-> {}, records |-> <<>>]

\* no run has committed yet
NoRun ==
    [op |-> "none", action |-> "", id |-> 0, ids |-> <<>>, pre |-> EmptyStore]

----------------------------------------------------------------------------
(* State after the script's set-up (l.15-43, l.86-89) on a new expenses.db *)

Init ==
    /\ expenses = {}
    /\ balances = {}
    /\ account_balance = {}
    /\ records = <<>>
    /\ sqlite_sequence = [expenses |-> 0, balances |-> 0, account_balance |-> 0]
    /\ cache = NoCache
    /\ today = Today0
    /\ override = [today |-> None, credit |-> None, balance |-> None]
    /\ runs = EmptyBag
    /\ submitted = FALSE
    /\ mutations = 0
    /\ last = NoRun
    /\ prev = NoRun

\* the credit rows an expenses.db written before this run may hold: ids
\* 1..n in insertion order
CreditFiles ==
    UNION { { {[id |-> i, date |-> f[i], amount |-> a] : i \in 1..n} :
                f \in [1..n -> InputDates], a \in CreditAmounts }
            : n \in 0..MaxCredits }

\* the same set-up on an expenses.db that already holds credit rows
\* (CREATE TABLE IF NOT EXISTS keeps them)
InitDB ==
    /\ expenses = {}
    /\ balances \in CreditFiles
    /\ account_balance = {}
    /\ records = <<>>
    /\ sqlite_sequence = [expenses |-> 0, balances |-> Cardinality(balances),
                          account_balance |-> 0]
    /\ cache = NoCache
    /\ today = Today0
    /\ override = [today |-> None, credit |-> None, balance |-> None]
    /\ runs = EmptyBag
    /\ submitted = FALSE
    /\ mutations = 0
    /\ last = NoRun
    /\ prev = NoRun

----------------------------------------------------------------------------
(* Script runs *)

\* conn.commit() of a run that turned the database into db2, then
\* st.cache_data.clear() and st.rerun()
Commit(db2, run, changed) ==
    /\ expenses' = db2.expenses
    /\ balances' = db2.balances
    /\ account_balance' = db2.account_balance
    /\ records' = db2.records
    /\ cache' = after_commit(db2)
    /\ mutations' = mutations + changed
    /\ last' = run
    /\ prev' = last

\* except ValueError: st.error, nothing written; the run has drawn the
\* Dashboard (l.108)
Rejected ==
    /\ cache' = get_sums(cache, Store, today)
    /\ UNCHANGED <<expenses, balances, account_balance, records,
                   sqlite_sequence, mutations, last, prev>>

\* rows inserted so far: the records that are not of a deletion
IsInsert(rec) == rec.action # "Delete Expense"
Inserted == Len(SelectSeq(records, IsInsert))

\* expense_form submitted
expense_form(action, exp_date, amt_text) ==
    LET r  == float(amt_text)
        id == sqlite_sequence.expenses + 1
    IN  IF r.ok
        THEN /\ Inserted < MaxInserts
             /\ sqlite_sequence' = [sqlite_sequence EXCEPT !.expenses = id]
             /\ Commit([Store EXCEPT
                          !.expenses = @ \cup {[id |-> id, date |-> exp_date,
                                                amount |-> r.val]},
                          !.records = Append(@, [action |-> "Expense",
                                                 details |-> r.val])],
                       [op |-> "expense", action |-> action, id |-> id,
                        ids |-> <<>>, pre |-> Store], 1)
        ELSE Rejected

\* balance_form submitted
balance_form(action, bal_date, bal_text) ==
    LET r  == float(bal_text)
        id == sqlite_sequence.balances + 1
    IN  IF r.ok
        THEN /\ Inserted < MaxInserts
             /\ sqlite_sequence' = [sqlite_sequence EXCEPT !.balances = id]
             /\ Commit([Store EXCEPT
                          !.balances = @ \cup {[id |-> id, date |-> bal_date,
                                                amount |-> r.val]},
                          !.records = Append(@, [action |-> "Credit",
                                                 details |-> r.val])],
                       [op |-> "credit", action |-> action, id |-> id,
                        ids |-> <<>>, pre |-> Store], 1)
        ELSE Rejected

\* bank_form submitted
bank_form(action, bank_date, bank_text) ==
    LET r  == float(bank_text)
        id == sqlite_sequence.account_balance + 1
    IN  IF r.ok
        THEN /\ Inserted < MaxInserts
             /\ sqlite_sequence' = [sqlite_sequence EXCEPT !.account_balance = id]
             /\ Commit([Store EXCEPT
                          !.account_balance = @ \cup {[id |-> id, date |-> bank_date,
                                                       balance |-> r.val]},
                          !.records = Append(@, [action |-> "Set Bank",
                                                 details |-> r.val])],
                       [op |-> "bank", action |-> action, id |-> id,
                        ids |-> <<>>, pre |-> Store], 1)
        ELSE Rejected

\* a Dashboard run in which the form under the chosen radio option is
\* submitted: the if / elif / else over action
DashboardSubmit(action, d, text) ==
    /\ IF action = "Add Expense" THEN expense_form(action, d, text)
       ELSE IF action = "Add Balance" THEN balance_form(action, d, text)
       ELSE bank_form(action, d, text)
    /\ UNCHANGED <<today, override, runs, submitted>>

\* a Dashboard run with nothing submitted
ViewDashboard ==
    /\ cache' = get_sums(cache, Store, today)
    /\ UNCHANGED <<expenses, balances, account_balance, records, sqlite_sequence,
                   today, override, runs, submitted, mutations, last, prev>>

\* ids of the expenses dated today: df_today.id
df_today == {e.id : e \in {x \in expenses : x.date = today}}

\* lists without repetition over a set of ids, in the order selected
Selections(ids) ==
    {s \in UNION {[1..n -> ids] : n \in 0..Cardinality(ids)} :
        \A i, j \in 1..Len(s) : i # j => s[i] # s[j]}

\* a Dashboard run with "Delete Selected" pressed, up to the button: the
\* metrics are drawn, today's rows are queried and the multiselect is read
DeleteRead(to_delete) ==
    /\ df_today # {}
    /\ to_delete \in Selections(df_today)
    /\ BagCardinality(runs) < MaxRuns
    /\ runs' = runs (+) SetToBag({to_delete})
    /\ cache' = get_sums(cache, Store, today)
    /\ UNCHANGED <<expenses, balances, account_balance, records, sqlite_sequence,
                   today, override, submitted, mutations, last, prev>>

\* the loop over to_delete: the table and the log after it
RECURSIVE delete_loop(_, _)
delete_loop(db, to_delete) ==
    IF to_delete = <<>> THEN db
    ELSE LET did == Head(to_delete)
         IN  delete_loop([db EXCEPT
                            !.expenses = DeleteById(@, did),
                            !.records = Append(@, [action |-> "Delete Expense",
                                                   details |-> did])],
                         Tail(to_delete))

\* the rest of that run: the loop, commit, cache clear and rerun
DeleteExec(to_delete) ==
    /\ BagIn(to_delete, runs)
    /\ runs' = runs (-) SetToBag({to_delete})
    /\ LET db2 == delete_loop(Store, to_delete)
       IN  Commit(db2,
                  [op |-> "delete", action |-> "Add Expense", id |-> 0,
                   ids |-> to_delete, pre |-> Store],
                  Cardinality(expenses) - Cardinality(db2.expenses))
    /\ UNCHANGED <<sqlite_sequence, today, override, submitted>>

\* the Edit Details page drawn with the fields at their defaults
EditDetailsRender ==
    /\ LET s == get_sums(cache, Store, today)
       IN  /\ cache' = s
           /\ override' = [today |-> Some(s[1]), credit |-> Some(s[2]),
                           balance |-> Some(s[3])]
    /\ UNCHANGED <<expenses, balances, account_balance, records, sqlite_sequence,
                   today, runs, submitted, mutations, last, prev>>

\* edit_form submitted with typed numbers
EditDetailsSubmit(v1, v2, v3) ==
    /\ cache' = get_sums(cache, Store, today)
    /\ override' = [today |-> Some(v1), credit |-> Some(v2), balance |-> Some(v3)]
    /\ submitted' = TRUE
    /\ UNCHANGED <<expenses, balances, account_balance, records, sqlite_sequence,
                   today, runs, mutations, last, prev>>

\* midnight passes: date.today() moves on
DayAdvance ==
    /\ today < Today0 + MaxAdvance
    /\ today' = today + 1
    /\ UNCHANGED <<expenses, balances, account_balance, records, sqlite_sequence,
                   cache, override, runs, submitted, mutations, last, prev>>

Next ==
    \/ \E action \in ActionOptions, d \in InputDates, text \in AmtTexts :
          DashboardSubmit(action, d, text)
    \/ ViewDashboard
    \/ \E to_delete \in Selections(df_today) : DeleteRead(to_delete)
    \/ \E to_delete \in BagToSet(runs) : DeleteExec(to_delete)
    \/ EditDetailsRender
    \/ \E v1, v2, v3 \in EditInputs : EditDetailsSubmit(v1, v2, v3)
    \/ DayAdvance

Spec == Init /\ [][Next]_vars

SpecDB == InitDB /\ [][Next]_vars

----------------------------------------------------------------------------
(* Properties *)

\* what the next call of get_sums() returns
GetSums == get_sums(cache, Store, today)

\* ids of a table's rows
Ids(rows) == {r.id : r \in rows}

\* C1: when at least one manual balance set exists, the balance get_sums
\* gives is B + C - E, where B is the balance of the set with the highest
\* insertion id, C the sum of the credits and E the sum of the expenses dated
\* on or after that set's date; earlier entries do not count.
C1_AnchoredBalance ==
    \A a \in account_balance :
        (\A b \in account_balance : b.id <= a.id) =>
            LET C == SumAmount({x \in balances : ~(x.date < a.date)})
                E == SumAmount({x \in expenses : ~(x.date < a.date)})
            IN  /\ GetSums[3] = a.balance + C - E
                /\ get_sums_body(Store, today)[3] = a.balance + C - E

\* C1 happens: get_sums has run on a store whose latest manual set is dated
\* before an older one, with a credit dated between the two
C1_Witness ==
    /\ cache # NoCache
    /\ \E a, b \in account_balance :
          /\ b.id < a.id
          /\ \A x \in account_balance : x.id <= a.id
          /\ a.date < b.date
          /\ \E x \in balances : a.date <= x.date /\ x.date < b.date

\* C2: with no manual balance set, the balance is the sum of all credits
\* minus the sum of all expenses, whatever their dates (0 on an empty store).
\* Stated for the stores whose amounts are all positive.
C2_NoAnchorBalance ==
    (account_balance = {} /\ \A r \in expenses \cup balances : r.amount > 0) =>
        GetSums[3] = SumAmount(balances) - SumAmount(expenses)

\* C3: in every committed state the action log has as many rows as mutations
\* were applied to expenses, balances and account_balance.
C3_LogMatchesMutations == Len(records) = mutations

\* C4: every stored expense and credit row has amount > 0.
C4_PositiveAmounts == \A r \in expenses \cup balances : r.amount > 0

C6_AddThenDelete ==
    (prev.op = "expense" /\ last.op = "delete" /\ last.ids = <<prev.id>>) =>
        get_sums_body(Store, today) = get_sums_body(prev.pre, today)

\* C6 happens: on a store that held an expense already, an expense was
\* added and the next committed run deleted exactly it
C6_Witness ==
    /\ prev.op = "expense"
    /\ last.op = "delete"
    /\ last.ids = <<prev.id>>
    /\ prev.pre.expenses # {}
    /\ prev.id \in Ids(last.pre.expenses)

\* C7: deleting identifiers that are not in the expenses table leaves the
\* expenses, balances, account_balance and records tables unchanged.
C7_MissingDeleteNoOp ==
    ( /\ last.op = "delete"
      /\ last.ids # <<>>
      /\ \A i \in 1..Len(last.ids) : last.ids[i] \notin Ids(last.pre.expenses) )
        => Store = last.pre

\* C8: submitting a number under 'Add Credited Amount' inserts one row into
\* balances and one 'Credit' record, and nothing into account_balance.
C8_CreditDispatch ==
    (last.op # "none" /\ last.action = "Add Credited Amount") =>
        /\ Cardinality(balances) = Cardinality(last.pre.balances) + 1
        /\ account_balance = last.pre.account_balance
        /\ records = Append(last.pre.records,
                            [action |-> "Credit", details |-> records[Len(records)].details])

\* C9: unless 'Update Metrics' was submitted, today's spent, total credited
\* and bank balance of get_metrics are those of get_sums.
C9_NoOverrideUnlessSubmitted ==
    ~submitted =>
        \A i \in 1..3 : get_metrics(cache, Store, today, override)[i] = GetSums[i]

\* C10: whatever get_sums returns, from the cache or not, is for the current
\* day: today's spent is the sum of the expenses dated today, the averages
\* cover the 7 and 30 days ending today.
C10_CurrentDay ==
    /\ GetSums[1] = SumAmount({e \in expenses : e.date = today})
    /\ GetSums[4] = Div(SumAmount({e \in expenses :
                         today - WeekBack <= e.date /\ e.date <= today}), WeekDays)
    /\ GetSums[5] = Div(SumAmount({e \in expenses :
                         today - MonthBack <= e.date /\ e.date <= today}), MonthDays)

====
